---- MODULE Spec2Model ----
(***************************************************************************)
(* Model of melange's DAF file-record decoder: src/src/byteorder.rs        *)
(* (ByteOrder::i32_from_bytes) and src/src/daf.rs (FileRecord, its derived *)
(* queries, valid_nd_ni and TryFrom<&[u8]>).                               *)
(*                                                                         *)
(* A byte buffer is a function from 0..len-1 to 0..255, so that every      *)
(* offset of the source is the same number here.  An i32 is an integer in  *)
(* MinI32..MaxI32; the arithmetic of the queries is done by I32Add, I32Mul *)
(* and I32Div, which overflow, wrap and panic as Rust's do.                *)
(***************************************************************************)
EXTENDS Integers, Sequences, FiniteSets, TLC

VARIABLES
    buffer,      \* the byte slice handed to FileRecord::try_from
    decoded,     \* what try_from returned: NotRun, Ok(FileRecord) or Err(msg)
    size,        \* outcome of FileRecord::single_summary_size
    nchar,       \* outcome of FileRecord::n_character
    per_record,  \* outcome of FileRecord::summaries_per_record
    i32call,     \* one call of ByteOrder::i32_from_bytes and what it returned
    overflow_checks  \* the build: TRUE when integer overflow panics (debug),
                     \* FALSE when it wraps (release)

vars == <<buffer, decoded, size, nchar, per_record, i32call, overflow_checks>>

-----------------------------------------------------------------------------
(* i32 arithmetic                                                          *)

MaxI32 == 2147483647
MinI32 == -2147483647 - 1

NotRun == [tag |-> "NotRun"]
Val(v) == [tag |-> "Val", val |-> v]
Panic(msg) == [tag |-> "Panic", msg |-> msg]
IsVal(o) == o.tag = "Val"
IsPanic(o) == o.tag = "Panic"

\* a + b on i32.  With overflow checks (a debug build) an overflow panics;
\* without them (a release build) the sum wraps modulo 2^32.
I32Add(a, b, checks) ==
    IF a > 0 /\ b > MaxI32 - a
    THEN IF checks THEN Panic("attempt to add with overflow")
         ELSE Val((a + MinI32) + (b + MinI32))
    ELSE IF a < 0 /\ b < MinI32 - a
    THEN IF checks THEN Panic("attempt to add with overflow")
         ELSE Val((a - MinI32) + (b - MinI32))
    ELSE Val(a + b)

\* The wrapped product k * b for a literal k >= 0, by repeated wrapping sums.
RECURSIVE WrappingMul(_, _)
WrappingMul(k, b) ==
    IF k = 0 THEN 0 ELSE I32Add(WrappingMul(k - 1, b), b, FALSE).val

\* k * b on i32 for a positive literal k.
I32Mul(k, b, checks) ==
    IF b > MaxI32 \div k \/ b < -(MaxI32 \div k) - (IF (MaxI32 % k) = k - 1 THEN 1 ELSE 0)
    THEN IF checks THEN Panic("attempt to multiply with overflow")
         ELSE Val(WrappingMul(k, b))
    ELSE Val(k * b)

\* The quotient of a by b > 0 rounded toward zero.
TruncDivPos(a, b) ==
    LET q == a \div b
    IN  IF a >= 0 \/ q * b = a THEN q ELSE q + 1

\* a / b on i32: truncating; division by zero and MinI32 / -1 panic in every
\* build.
I32Div(a, b) ==
    IF b = 0 THEN Panic("attempt to divide by zero")
    ELSE IF a = MinI32 /\ b = -1 THEN Panic("attempt to divide with overflow")
    ELSE IF b > 0 THEN Val(TruncDivPos(a, b))
    ELSE IF b = MinI32 THEN Val(IF a = MinI32 THEN 1 ELSE 0)
    ELSE Val(-TruncDivPos(a, -b))

-----------------------------------------------------------------------------
(* Byte slices                                                             *)

\* bytes.len()
BytesLen(bytes) == Cardinality(DOMAIN bytes)

\* &bytes[lo..hi], re-based at 0.
Slice(bytes, lo, hi) == [i \in 0..(hi - lo - 1) |-> bytes[lo + i]]

\* str::as_bytes of an ASCII string given as the tuple of its character codes.
AsBytes(s) == [i \in 0..(Len(s) - 1) |-> s[i + 1]]

-----------------------------------------------------------------------------
(* src/src/byteorder.rs                                                    *)

ByteOrder == {"LittleEndian", "BigEndian"}

\* The high byte of a two's complement word, as a signed number.
SignedByte(b) == IF b >= 128 THEN b - 256 ELSE b

\* i32::from_le_bytes and i32::from_be_bytes.
FromLeBytes(buf) ==
    SignedByte(buf[3]) * 16777216 + buf[2] * 65536 + buf[1] * 256 + buf[0]

FromBeBytes(buf) ==
    SignedByte(buf[0]) * 16777216 + buf[1] * 65536 + buf[2] * 256 + buf[3]

\* Faulty variant: the two arms of the match exchanged.
I32FromBytesArmsExchanged(self, bytes) ==
    LET buf == Slice(bytes, 0, 4)
    IN  IF self = "LittleEndian" THEN FromBeBytes(buf) ELSE FromLeBytes(buf)

\* ByteOrder::i32_from_bytes, on a slice that holds at least four bytes (every
\* slice try_from passes holds exactly four).
I32FromBytes(self, bytes) ==
    LET buf == Slice(bytes, 0, 4)
    IN  IF self = "LittleEndian" THEN FromLeBytes(buf) ELSE FromBeBytes(buf)

-----------------------------------------------------------------------------
(* src/src/daf.rs                                                          *)

ID_WORD_LENGTH == 8
DESCRIPTION_LENGTH == 60
FTP_STRING_LENGTH == 28

\* "LTL-IEEE" and "BIG-IEEE" in ASCII.
LITTLE_ENDIAN_STRING == <<76, 84, 76, 45, 73, 69, 69, 69>>
BIG_ENDIAN_STRING == <<66, 73, 71, 45, 73, 69, 69, 69>>

Ok(rec) == [tag |-> "Ok", rec |-> rec]
Err(msg) == [tag |-> "Err", err |-> msg]

\* FileRecord::single_summary_size: n_double + (n_integer + 1) / 2.
SingleSummarySize(self, checks) ==
    LET inc  == I32Add(self.n_integer, 1, checks)
        half == IF IsVal(inc) THEN I32Div(inc.val, 2) ELSE inc
    IN  IF IsVal(half) THEN I32Add(self.n_double, half.val, checks)
        ELSE half

\* FileRecord::n_character: 8 * single_summary_size().
NCharacter(self, checks) ==
    LET s == SingleSummarySize(self, checks)
    IN  IF IsVal(s) THEN I32Mul(8, s.val, checks) ELSE s

\* Faulty variant: the record capacity taken as 124 double words.
SummariesPerRecord124(self, checks) ==
    LET s == SingleSummarySize(self, checks)
    IN  IF IsVal(s) THEN I32Div(124, s.val) ELSE s

\* FileRecord::summaries_per_record: 125 / single_summary_size().
SummariesPerRecord(self, checks) ==
    LET s == SingleSummarySize(self, checks)
    IN  IF IsVal(s) THEN I32Div(125, s.val) ELSE s

\* valid_nd_ni: the three checks are let-bound, so all of them are computed.
ValidNdNi(nd, ni, checks) ==
    LET inc  == I32Add(ni, 1, checks)
        half == IF IsVal(inc) THEN I32Div(inc.val, 2) ELSE inc
        sum  == IF IsVal(half) THEN I32Add(nd, half.val, checks) ELSE half
        check_2 == (0 <= nd) /\ (nd <= 124)
        check_3 == (2 <= ni) /\ (ni <= 250)
    IN  IF IsVal(sum) THEN Val((sum.val <= 125) /\ check_2 /\ check_3) ELSE sum

\* Faulty variant: a buffer of exactly 1024 bytes refused.
BufferTooShortInclusive(bytes) == BytesLen(bytes) <= 1024

\* The length guard of try_from.
BufferTooShort(bytes) == BytesLen(bytes) < 1024

\* Faulty variant: only the three leading characters of the marker compared.
ByteOrderingOfPrefix(fmt_string) ==
    IF Slice(fmt_string, 0, 3) = Slice(AsBytes(LITTLE_ENDIAN_STRING), 0, 3)
    THEN Ok("LittleEndian")
    ELSE IF Slice(fmt_string, 0, 3) = Slice(AsBytes(BIG_ENDIAN_STRING), 0, 3)
    THEN Ok("BigEndian")
    ELSE Err("invalid binary format string")

\* The if / else if / else over fmt_string in try_from.
ByteOrderingOf(fmt_string) ==
    IF fmt_string = AsBytes(LITTLE_ENDIAN_STRING) THEN Ok("LittleEndian")
    ELSE IF fmt_string = AsBytes(BIG_ENDIAN_STRING) THEN Ok("BigEndian")
    ELSE Err("invalid binary format string")

\* Faulty variant: the windows of forward and backward exchanged.
FileRecordOfPointersExchanged(bytes, byte_ordering) ==
    [ id_word       |-> Slice(bytes, 0, 8),
      n_double      |-> I32FromBytes(byte_ordering, Slice(bytes, 8, 12)),
      n_integer     |-> I32FromBytes(byte_ordering, Slice(bytes, 12, 16)),
      description   |-> Slice(bytes, 16, 76),
      forward       |-> I32FromBytes(byte_ordering, Slice(bytes, 80, 84)),
      backward      |-> I32FromBytes(byte_ordering, Slice(bytes, 76, 80)),
      first_free    |-> I32FromBytes(byte_ordering, Slice(bytes, 84, 88)),
      byte_ordering |-> byte_ordering,
      ftp_string    |-> Slice(bytes, 699, 727) ]

\* Faulty variant: the FTP string window one byte late, over a padding byte.
FileRecordOfFtpLate(bytes, byte_ordering) ==
    [ id_word       |-> Slice(bytes, 0, 8),
      n_double      |-> I32FromBytes(byte_ordering, Slice(bytes, 8, 12)),
      n_integer     |-> I32FromBytes(byte_ordering, Slice(bytes, 12, 16)),
      description   |-> Slice(bytes, 16, 76),
      forward       |-> I32FromBytes(byte_ordering, Slice(bytes, 76, 80)),
      backward      |-> I32FromBytes(byte_ordering, Slice(bytes, 80, 84)),
      first_free    |-> I32FromBytes(byte_ordering, Slice(bytes, 84, 88)),
      byte_ordering |-> byte_ordering,
      ftp_string    |-> Slice(bytes, 700, 728) ]

\* The windows try_from copies and the integers it decodes.
FileRecordOf(bytes, byte_ordering) ==
    [ id_word       |-> Slice(bytes, 0, 8),
      n_double      |-> I32FromBytes(byte_ordering, Slice(bytes, 8, 12)),
      n_integer     |-> I32FromBytes(byte_ordering, Slice(bytes, 12, 16)),
      description   |-> Slice(bytes, 16, 76),
      forward       |-> I32FromBytes(byte_ordering, Slice(bytes, 76, 80)),
      backward      |-> I32FromBytes(byte_ordering, Slice(bytes, 80, 84)),
      first_free    |-> I32FromBytes(byte_ordering, Slice(bytes, 84, 88)),
      byte_ordering |-> byte_ordering,
      ftp_string    |-> Slice(bytes, 699, 727) ]

\* Faulty variant: the counts checked with valid_nd_ni before a record is
\* returned.
TryFromValidating(bytes) ==
    IF BufferTooShort(bytes)
    THEN Err("byte buffer too short to parse file record")
    ELSE LET fmt_string == Slice(bytes, 88, 96)
             byte_ordering == ByteOrderingOf(fmt_string)
         IN  IF byte_ordering.tag = "Err" THEN byte_ordering
             ELSE LET rec == FileRecordOf(bytes, byte_ordering.rec)
                  IN  IF ValidNdNi(rec.n_double, rec.n_integer, FALSE) = Val(TRUE)
                      THEN Ok(rec)
                      ELSE Err("invalid summary shape")

\* <FileRecord as TryFrom<&[u8]>>::try_from
TryFrom(bytes) ==
    IF BufferTooShort(bytes)
    THEN Err("byte buffer too short to parse file record")
    ELSE LET fmt_string == Slice(bytes, 88, 96)
             byte_ordering == ByteOrderingOf(fmt_string)
         IN  IF byte_ordering.tag = "Err" THEN byte_ordering
             ELSE Ok(FileRecordOf(bytes, byte_ordering.rec))

-----------------------------------------------------------------------------
(* Input buffers                                                           *)

\* How many bytes past the 1024-byte record a supplied buffer may hold.
MaxExtra == 1

BufferLengths == {0, 1023} \cup (1024..(1024 + MaxExtra))

\* Marker windows: the two recognized strings, "ltl-ieee", "LTL-IEEF",
\* "BIG-IEE" followed by a blank, and eight zero bytes.
Markers ==
    { LITTLE_ENDIAN_STRING, BIG_ENDIAN_STRING,
      <<108, 116, 108, 45, 105, 101, 101, 101>>,
      <<76, 84, 76, 45, 73, 69, 69, 70>>,
      <<66, 73, 71, 45, 73, 69, 69, 32>>,
      <<0, 0, 0, 0, 0, 0, 0, 0>> }

\* The four bytes stored at offset 8 (n_double) and at offset 12 (n_integer).
NDoubleWords ==
    { <<2, 0, 0, 0>>, <<1, 0, 0, 0>>, <<0, 0, 0, 0>>, <<0, 0, 0, 2>>,
      <<0, 0, 0, 64>>, <<255, 255, 255, 127>> }
NIntegerWords ==
    { <<6, 0, 0, 0>>, <<3, 0, 0, 0>>, <<0, 0, 0, 0>>, <<0, 0, 0, 6>>,
      <<252, 255, 255, 255>>, <<255, 255, 255, 127>> }

\* The twelve bytes stored at offsets 76..87 (forward, backward, first_free).
PointerWords ==
    { <<4, 0, 0, 0, 5, 0, 0, 0, 10, 1, 0, 0>>,
      <<0, 0, 0, 4, 255, 255, 255, 254, 128, 0, 1, 10>> }

\* Multipliers of the pattern that fills every other byte of a buffer.
FillSeeds == {3, 7}

Fill(seed, i) == (i * seed + 1) % 256

MkBuffer(len, seed, nd, ni, ptrs, marker) ==
    [i \in 0..(len - 1) |->
        IF i \in 8..11 THEN nd[i - 7]
        ELSE IF i \in 12..15 THEN ni[i - 11]
        ELSE IF i \in 76..87 THEN ptrs[i - 75]
        ELSE IF i \in 88..95 THEN marker[i - 87]
        ELSE Fill(seed, i)]

Idle == [tag |-> "Idle"]

-----------------------------------------------------------------------------------------------------------------------------------------------------
(* The decoder: a buffer is supplied, decoded, and the queries are asked   *)
(* of the record.                                                          *)

Init ==
    /\ \E len \in BufferLengths, seed \in FillSeeds, nd \in NDoubleWords,
          ni \in NIntegerWords, ptrs \in PointerWords, marker \in Markers :
            buffer = MkBuffer(len, seed, nd, ni, ptrs, marker)
    /\ decoded = NotRun
    /\ size = NotRun
    /\ nchar = NotRun
    /\ per_record = NotRun
    /\ i32call = Idle
    /\ overflow_checks \in BOOLEAN

Decode ==
    /\ decoded = NotRun
    /\ decoded' = TryFrom(buffer)
    /\ UNCHANGED <<buffer, size, nchar, per_record, i32call, overflow_checks>>

AskSingleSummarySize ==
    /\ decoded.tag = "Ok"
    /\ size = NotRun
    /\ size' = SingleSummarySize(decoded.rec, overflow_checks)
    /\ UNCHANGED <<buffer, decoded, nchar, per_record, i32call, overflow_checks>>

AskNCharacter ==
    /\ decoded.tag = "Ok"
    /\ nchar = NotRun
    /\ nchar' = NCharacter(decoded.rec, overflow_checks)
    /\ UNCHANGED <<buffer, decoded, size, per_record, i32call, overflow_checks>>

AskSummariesPerRecord ==
    /\ decoded.tag = "Ok"
    /\ per_record = NotRun
    /\ per_record' = SummariesPerRecord(decoded.rec, overflow_checks)
    /\ UNCHANGED <<buffer, decoded, size, nchar, i32call, overflow_checks>>

Next ==
    \/ Decode
    \/ AskSingleSummarySize
    \/ AskNCharacter
    \/ AskSummariesPerRecord

Spec == Init /\ [][Next]_vars

-----------------------------------------------------------------------------
(* The queries alone, on records built field by field as the unit tests'   *)
(* random_file_record builds them.                                         *)

\* How far below zero, and up to where, the two counts of a built record range.
MaxBelow == 4
MaxNDouble == 126
MaxNInteger == 252

NoBuffer == <<>>

\* tests::random_file_record: the three byte arrays are filled at random.
RandomFileRecord(nd, ni, f, b, ff, seed) ==
    [ id_word       |-> [i \in 0..(ID_WORD_LENGTH - 1) |-> Fill(seed, i)],
      n_double      |-> nd,
      n_integer     |-> ni,
      description   |-> [i \in 0..(DESCRIPTION_LENGTH - 1) |-> Fill(seed, 16 + i)],
      forward       |-> f,
      backward      |-> b,
      first_free    |-> ff,
      byte_ordering |-> "LittleEndian",
      ftp_string    |-> [i \in 0..(FTP_STRING_LENGTH - 1) |-> Fill(seed, 699 + i)] ]

InitQuery ==
    /\ buffer = NoBuffer
    /\ \E nd \in (-MaxBelow)..MaxNDouble, ni \in (-MaxBelow)..MaxNInteger,
          seed \in FillSeeds :
            decoded = Ok(RandomFileRecord(nd, ni, 1, 1, 10, seed))
    /\ size = NotRun
    /\ nchar = NotRun
    /\ per_record = NotRun
    /\ i32call = Idle
    /\ overflow_checks \in BOOLEAN

NextQuery ==
    \/ AskSingleSummarySize
    \/ AskNCharacter
    \/ AskSummariesPerRecord

SpecQuery == InitQuery /\ [][NextQuery]_vars

-----------------------------------------------------------------------------
(* ByteOrder::i32_from_bytes alone, on the four bytes of an encoded value. *)

\* i32::to_le_bytes and i32::to_be_bytes: the two's complement digits of v.
ToLeBytes(v) == [i \in 0..3 |-> (v \div (256 ^ i)) % 256]
ToBeBytes(v) == [i \in 0..3 |-> (v \div (256 ^ (3 - i))) % 256]
ToBytes(order, v) == IF order = "LittleEndian" THEN ToLeBytes(v) ELSE ToBeBytes(v)

\* The values around zero that are encoded, besides the marked ones below.
MaxSample == 6

\* Extremes, single set bytes, and words whose four bytes read the same in
\* both directions (16777217 = 0x01000001, 16908801 = 0x01020201,
\* 16776960 = 0x00FFFF00, 2130706559 = 0x7F00007F) or not.
I32Samples ==
    ((-MaxSample)..MaxSample)
    \cup { MinI32, MinI32 + 1, MaxI32, MaxI32 - 1,
           127, 128, 255, 256, 65535, 65536, 16777215, 16777216,
           16909060, -16909060, 16777217, 16908801, 16776960, 2130706559,
           -16777216, -256, -128, -129 }

InitI32 ==
    /\ buffer = NoBuffer
    /\ decoded = NotRun
    /\ size = NotRun
    /\ nchar = NotRun
    /\ per_record = NotRun
    /\ overflow_checks \in BOOLEAN
    /\ \E v \in I32Samples, written \in ByteOrder, self \in ByteOrder :
          i32call = [ value |-> v, written |-> written,
                      bytes |-> ToBytes(written, v), self |-> self,
                      out |-> NotRun ]

CallI32FromBytes ==
    /\ i32call /= Idle
    /\ i32call.out = NotRun
    /\ i32call' = [i32call EXCEPT
                      !.out = Val(I32FromBytes(i32call.self, i32call.bytes))]
    /\ UNCHANGED <<buffer, decoded, size, nchar, per_record, overflow_checks>>

NextI32 ==
    \/ CallI32FromBytes

SpecI32 == InitI32 /\ [][NextI32]_vars

-----------------------------------------------------------------------------
(* Vocabulary of the properties                                            *)

BufferLength == Cardinality(DOMAIN buffer)

\* bytes[88..96] of the supplied buffer, as a tuple.
MarkerWindow == [k \in 1..8 |-> buffer[87 + k]]

AsciiLTL == <<76, 84, 76, 45, 73, 69, 69, 69>>
AsciiBIG == <<66, 73, 71, 45, 73, 69, 69, 69>>
AsciiLowerLTL == <<108, 116, 108, 45, 105, 101, 101, 101>>

TooShortErr == [tag |-> "Err", err |-> "byte buffer too short to parse file record"]
BadMarkerErr == [tag |-> "Err", err |-> "invalid binary format string"]

\* bytes[lo..lo+n] of `bytes` equals the 0-based array `window`.
WindowIs(window, bytes, lo, n) ==
    /\ DOMAIN window = 0..(n - 1)
    /\ \A i \in 0..(n - 1) : window[i] = bytes[lo + i]

\* ceil(n / 2) in the integers.
CeilHalf(n) == IF n % 2 = 0 THEN n \div 2 ELSE (n \div 2) + 1

\* x = a + b in the integers, for x and a that are i32.
SumIs(x, a, b) ==
    IF a >= 0 /\ x < 0 THEN x >= MinI32 + a /\ x - a = b
    ELSE IF a < 0 /\ x >= 0 THEN x <= MaxI32 + a /\ x - a = b
    ELSE x - a = b

\* q is 125 / s rounded toward zero.
IsQuotientOf125(q, s) ==
    /\ s /= 0
    /\ LET r == 125 - q * s
       IN  r >= 0 /\ (s > 0 => r < s) /\ (s < 0 => r + s < 0)

\* The bounds of the DAF format on the two counts.
CountsInRange(nd, ni) ==
    /\ 0 <= nd /\ nd <= 124
    /\ 2 <= ni /\ ni <= 250
    /\ nd + CeilHalf(ni) <= 125

Palindromic(bytes) == bytes[0] = bytes[3] /\ bytes[1] = bytes[2]

\* The offsets try_from interprets, and buffers that agree on all of them.
Interpreted(i) == (0 <= i /\ i <= 95) \/ (699 <= i /\ i <= 726)
Agree(a, b) ==
    /\ \A i \in 0..95 : a[i] = b[i]
    /\ \A i \in 699..726 : a[i] = b[i]
SameMarker(a, b) == \A i \in 88..95 : a[i] = b[i]

\* Offsets where a second buffer differs from the first in one byte.
PokeAt == {0, 8, 15, 16, 75, 76, 87, 88, 95, 96, 400, 698, 699, 726, 727, 1023, 1024}

OrderingOutcome(r) == IF r.tag = "Ok" THEN r.rec.byte_ordering ELSE r

\* A second buffer: `bytes` with the byte at offset p changed.
Poked(bytes, p) == [bytes EXCEPT ![p] = (bytes[p] + 1) % 256]

\* A second buffer of n bytes: `bytes` with every byte that try_from does
\* not interpret replaced.
Repadded(bytes, n) ==
    [i \in 0..(n - 1) |->
        IF Interpreted(i) THEN bytes[i] ELSE Fill(5, i)]

\* The outcome of decoding `other` beside the decoded buffer, as C10 has it.
SameOutcome(other) ==
    LET again == TryFrom(other)
    IN  /\ Agree(buffer, other) => again = decoded
        /\ SameMarker(buffer, other)
              => OrderingOutcome(again) = OrderingOutcome(decoded)

-----------------------------------------------------------------------------
(* Properties                                                              *)

\* C1: try_from fails with the buffer-too-short error for every buffer shorter
\* than 1024 bytes, whatever its marker, never for a buffer of 1024 bytes or
\* more, and a buffer of exactly 1024 bytes with a recognized marker decodes.
C1_LengthGuard ==
    decoded /= NotRun =>
        /\ BufferLength < 1024 => decoded = TooShortErr
        /\ BufferLength >= 1024 => decoded /= TooShortErr
        /\ (BufferLength = 1024 /\ MarkerWindow \in {AsciiLTL, AsciiBIG})
              => decoded.tag = "Ok"

\* A 1023-byte buffer holding a recognized marker was refused as too short.
C1_Witness ==
    /\ BufferLength = 1023
    /\ MarkerWindow = AsciiLTL
    /\ decoded = TooShortErr

\* C2: for a buffer of at least 1024 bytes, bytes[88..96] equal to "LTL-IEEE"
\* gives LittleEndian, equal to "BIG-IEEE" gives BigEndian, and any other
\* eight bytes make decode fail with the invalid-format error.
C2_MarkerResolution ==
    (decoded /= NotRun /\ BufferLength >= 1024) =>
        /\ MarkerWindow = AsciiLTL =>
              decoded.tag = "Ok" /\ decoded.rec.byte_ordering = "LittleEndian"
        /\ MarkerWindow = AsciiBIG =>
              decoded.tag = "Ok" /\ decoded.rec.byte_ordering = "BigEndian"
        /\ MarkerWindow \notin {AsciiLTL, AsciiBIG} => decoded = BadMarkerErr

\* A 1024-byte buffer whose marker is "ltl-ieee" was refused.
C2_Witness ==
    /\ BufferLength = 1024
    /\ MarkerWindow = AsciiLowerLTL
    /\ decoded = BadMarkerErr

\* C3: a decoded record equals the layout table field by field: the three
\* byte windows are copies of bytes[0..8], bytes[16..76] and bytes[699..727],
\* and each integer re-encoded under the resolved ordering gives back the four
\* bytes at its offset; "LTL-IEEE" with 2 and 6 stored little-endian at 8 and
\* 12 gives LittleEndian, n_double = 2 and n_integer = 6.
C3_LayoutTable ==
    decoded.tag = "Ok" =>
        LET rec == decoded.rec
            o == rec.byte_ordering
        IN  /\ o \in ByteOrder
            /\ WindowIs(rec.id_word, buffer, 0, 8)
            /\ WindowIs(ToBytes(o, rec.n_double), buffer, 8, 4)
            /\ WindowIs(ToBytes(o, rec.n_integer), buffer, 12, 4)
            /\ WindowIs(rec.description, buffer, 16, 60)
            /\ WindowIs(ToBytes(o, rec.forward), buffer, 76, 4)
            /\ WindowIs(ToBytes(o, rec.backward), buffer, 80, 4)
            /\ WindowIs(ToBytes(o, rec.first_free), buffer, 84, 4)
            /\ WindowIs(rec.ftp_string, buffer, 699, 28)
            /\ DOMAIN rec = { "id_word", "n_double", "n_integer", "description",
                              "forward", "backward", "first_free",
                              "byte_ordering", "ftp_string" }
            /\ ( /\ MarkerWindow = AsciiLTL
                 /\ WindowIs(AsBytes(<<2, 0, 0, 0>>), buffer, 8, 4)
                 /\ WindowIs(AsBytes(<<6, 0, 0, 0>>), buffer, 12, 4) )
               => (o = "LittleEndian" /\ rec.n_double = 2 /\ rec.n_integer = 6)

\* The round-trip scenario was decoded, with pointers 4, 5 and 266.
C3_Witness ==
    /\ decoded.tag = "Ok"
    /\ MarkerWindow = AsciiLTL
    /\ decoded.rec.byte_ordering = "LittleEndian"
    /\ decoded.rec.n_double = 2
    /\ decoded.rec.n_integer = 6
    /\ decoded.rec.forward = 4
    /\ decoded.rec.backward = 5
    /\ decoded.rec.first_free = 266

\* C4: i32_from_bytes returns v from the four bytes of v written in the
\* ordering it decodes with, and a value other than v from the bytes written
\* in the opposite ordering unless they read the same in both directions.
C4_OrderingCorrect ==
    (i32call /= Idle /\ i32call.out /= NotRun) =>
        /\ i32call.self = i32call.written => i32call.out = Val(i32call.value)
        /\ (i32call.self /= i32call.written /\ ~Palindromic(i32call.bytes))
              => (IsVal(i32call.out) /\ i32call.out.val /= i32call.value)

\* A negative value written big-endian was decoded as BigEndian.
C4_Witness ==
    /\ i32call /= Idle
    /\ i32call.written = "BigEndian"
    /\ i32call.self = "BigEndian"
    /\ i32call.value = -16909060
    /\ i32call.out = Val(-16909060)

\* C5: valid_nd_ni accepts exactly the pairs with 0 <= n_double <= 124,
\* 2 <= n_integer <= 250 and n_double + ceil(n_integer / 2) <= 125, and on
\* every record with such counts single_summary_size() >= 1 and
\* summaries_per_record() >= 1.
C5_ValidCounts ==
    decoded.tag = "Ok" =>
        LET nd == decoded.rec.n_double
            ni == decoded.rec.n_integer
        IN  /\ ValidNdNi(nd, ni, overflow_checks) = Val(CountsInRange(nd, ni))
            /\ CountsInRange(nd, ni) =>
                  /\ size /= NotRun => (IsVal(size) /\ size.val >= 1)
                  /\ per_record /= NotRun
                        => (IsVal(per_record) /\ per_record.val >= 1)

\* A record with the largest valid summary (125 doubles) was asked both.
C5_Witness ==
    /\ decoded.tag = "Ok"
    /\ CountsInRange(decoded.rec.n_double, decoded.rec.n_integer)
    /\ size = Val(125)
    /\ per_record = Val(1)

\* C6: single_summary_size() of every record is n_double + n_integer / 2 when
\* n_integer is even and n_double + (n_integer + 1) / 2 when it is odd.
C6_RoundHalfUp ==
    (decoded.tag = "Ok" /\ IsVal(size)) =>
        SumIs(size.val, decoded.rec.n_double, CeilHalf(decoded.rec.n_integer))

\* C7: for every record n_character() = 8 * single_summary_size() and
\* summaries_per_record() = 125 / single_summary_size(), truncating.
C7_DerivedConstants ==
    (decoded.tag = "Ok" /\ IsVal(size)) =>
        /\ nchar /= NotRun =>
              /\ IsVal(nchar)
              /\ nchar.val % 8 = 0
              /\ nchar.val \div 8 = size.val
        /\ per_record /= NotRun =>
              /\ IsVal(per_record)
              /\ IsQuotientOf125(per_record.val, size.val)

\* C8: on every record a successful decode returns, each of the three
\* queries returns an i32: none divides by zero, none aborts on overflow.
C8_NoFailurePath ==
    decoded.tag = "Ok" =>
        /\ size /= NotRun => IsVal(size)
        /\ nchar /= NotRun => IsVal(nchar)
        /\ per_record /= NotRun => IsVal(per_record)

\* C9: try_from fails exactly when the buffer is shorter than 1024 bytes or
\* its marker is neither recognized string; a failure is one of the two errors
\* and carries no record; the counts are never checked, so out-of-range
\* counts decode.
C9_FailuresExhaustive ==
    decoded /= NotRun =>
        /\ decoded.tag \in {"Ok", "Err"}
        /\ decoded.tag = "Err"
              <=> (BufferLength < 1024 \/ MarkerWindow \notin {AsciiLTL, AsciiBIG})
        /\ decoded.tag = "Err" =>
              /\ decoded \in {TooShortErr, BadMarkerErr}
              /\ DOMAIN decoded = {"tag", "err"}

\* A buffer whose counts valid_nd_ni rejects (n_integer < 0) was decoded.
C9_Witness ==
    /\ decoded.tag = "Ok"
    /\ decoded.rec.n_integer < 0
    /\ ValidNdNi(decoded.rec.n_double, decoded.rec.n_integer, FALSE) = Val(FALSE)

\* C10: a second buffer of at least 1024 bytes that agrees with the first on
\* bytes[0..96] and bytes[699..727] decodes to the same outcome, whatever its
\* other bytes and its length; and one that agrees on bytes[88..96] resolves
\* to the same ordering, or fails on the marker alike.
C10_UninterpretedBytes ==
    (decoded /= NotRun /\ BufferLength >= 1024) =>
        /\ \A p \in PokeAt \cap DOMAIN buffer : SameOutcome(Poked(buffer, p))
        /\ \A n \in 1024..(1024 + MaxExtra + 1) : SameOutcome(Repadded(buffer, n))

\* A 1025-byte buffer was decoded, and a 1024-byte buffer with other padding
\* decodes to the same record.
C10_Witness ==
    /\ decoded.tag = "Ok"
    /\ BufferLength = 1025
    /\ LET other == Repadded(buffer, 1024)
       IN  /\ other[96] /= buffer[96]
           /\ other[1023] /= buffer[1023]
           /\ Agree(buffer, other)
           /\ TryFrom(other) = decoded

====
